---- MODULE Spec2Model ----
(***************************************************************************)
(* A model of sea_turtles.py: the Streamlit script that reads              *)
(* Resources/seaturtles.csv (load_data), derives the slider range, and     *)
(* renders four tabs (turtle_population_plot, scatter_plot, pie_plot x 2,  *)
(* filter_turtle_data + map_heatmap).  Streamlit re-executes the whole     *)
(* script whenever the slider is moved.                                    *)
(*                                                                         *)
(* A DataFrame is [dtype |-> dtype of its date_year column, rows |-> the   *)
(* sequence of its rows].  A missing cell of the CSV is NaN (numeric       *)
(* columns) or NaNStr (text columns); after fillna("NA") it is NA or       *)
(* NAStr, which pandas does not treat as missing any more.                 *)
(***************************************************************************)
EXTENDS Integers, Sequences, FiniteSets, TLC

(* ------------------------------ values -------------------------------- *)

\* A missing numeric cell as read_csv produces it (float NaN).
NaN == -1
\* The marker fillna("NA") writes into a numeric column (the string "NA").
NA == -2
NaNStr == "NaN"
NAStr == "NA"

\* Thresholds of the script.
MinYearlyYear == 1990
AnnotationYear == 2019
MinPieYear == 2000
MinSliderYear == 1992

(* ------------------------------ bounds -------------------------------- *)

\* Rows at the head of the CSV file (index labels 0 .. HeadRows-1).
HeadRows == 2
\* How often the slider is moved (each move re-executes the script).
MaxReruns == 1

\* The year values that occur in the modelled CSV files.
Years == {1989, 2000, 2019}
YearCells == Years \cup {NaN}
\* Slider positions the user picks from (within first_date .. last_date).
SliderChoices == {2010, 2019}
\* The columns in which the modelled files may have one empty cell.
NullableColumns == {"decimalLatitude", "sst"}

(* ------------------------------ helpers ------------------------------- *)

Min(S) == CHOOSE x \in S : \A y \in S : x <= y
Max(S) == CHOOSE x \in S : \A y \in S : x >= y

RECURSIVE Ascending(_)
\* The elements of a finite set of integers in ascending order.
Ascending(S) ==
    IF S = {} THEN <<>> ELSE <<Min(S)>> \o Ascending(S \ {Min(S)})

Range(s) == {s[i] : i \in 1..Len(s)}

RECURSIVE Unique(_)
\* The distinct elements of s in order of first appearance.
Unique(s) ==
    IF s = <<>> THEN <<>>
    ELSE LET r == Unique(SubSeq(s, 1, Len(s) - 1))
         IN IF s[Len(s)] \in Range(r) THEN r ELSE Append(r, s[Len(s)])

RECURSIVE Sum(_)
Sum(s) == IF s = <<>> THEN 0 ELSE s[1] + Sum(Tail(s))

Column(rows, c) == [i \in 1..Len(rows) |-> rows[i][c]]

Count(rows, c, v) == Cardinality({i \in 1..Len(rows) : rows[i][c] = v})

(* ------------------------------ the CSV file -------------------------- *)

\* The cells of the rows at index labels 1989, 2000 and 2019 apart from
\* date_year, and of every other row that carries a year.
BaseRow(p) ==
    IF p = 1989 THEN
        [decimalLatitude |-> 10, decimalLongitude |-> 20, sst |-> 3, sss |-> 30,
         waterBody |-> "Indian", country |-> "MX"]
    ELSE IF p = 2000 THEN
        [decimalLatitude |-> 11, decimalLongitude |-> 21, sst |-> 5, sss |-> 32,
         waterBody |-> "Pacific", country |-> "SV"]
    ELSE
        [decimalLatitude |-> 12, decimalLongitude |-> 22, sst |-> 8, sss |-> 34,
         waterBody |-> "Atlantic", country |-> "SV"]

WithYear(r, y) ==
    [date_year |-> y, decimalLatitude |-> r.decimalLatitude,
     decimalLongitude |-> r.decimalLongitude, sst |-> r.sst, sss |-> r.sss,
     waterBody |-> r.waterBody, country |-> r.country]

\* A row of the file all of whose cells are empty.
BlankRow ==
    [date_year |-> NaN, decimalLatitude |-> NaN, decimalLongitude |-> NaN,
     sst |-> NaN, sss |-> NaN, waterBody |-> NaNStr, country |-> NaNStr]

Blanked(r, c) ==
    [r EXCEPT ![c] = IF c \in {"waterBody", "country"} THEN NaNStr ELSE NaN]

\* The empty cell of a file: none, or column c of the row at label p.
EmptyCells == {<<0, "none">>} \cup (Years \X NullableColumns)

\* A file of n rows.  Only the rows at labels 0 .. HeadRows-1 and at the
\* labels in Years are written down; every other row is a BlankRow.
MkCsv(n, headYears, labelYears, empty) ==
    [n |-> n,
     rows |-> [p \in {q \in (0..(HeadRows - 1)) \cup Years : q < n} |->
                 IF p \in Years
                 THEN LET r == WithYear(BaseRow(p), labelYears[p])
                      IN IF empty[1] = p THEN Blanked(r, empty[2]) ELSE r
                 ELSE WithYear(BaseRow(p), headYears[p])]]

\* The files the script is run on: a short file of HeadRows rows, or a file
\* long enough to have a row at every label in Years.
CsvFiles ==
    {MkCsv(n, hy, ly, e) :
        n \in {HeadRows, Max(Years) + 1},
        hy \in [0..(HeadRows - 1) -> YearCells],
        ly \in [Years -> YearCells],
        e \in EmptyCells}

\* Row i of the file (0 <= i < n).
CsvRow(file, i) == IF i \in DOMAIN file.rows THEN file.rows[i] ELSE BlankRow

(* ------------------------------ load_data ----------------------------- *)

\* pd.read_csv: a frame with the RangeIndex 0 .. n-1; date_year is int64
\* when no cell of the column is empty (every one of the n rows is written
\* down and has a year) and float64 otherwise.
ReadCsv(file) ==
    [dtype |-> IF /\ Cardinality(DOMAIN file.rows) = file.n
                  /\ \A i \in DOMAIN file.rows : file.rows[i].date_year # NaN
               THEN "int64" ELSE "float64",
     n |-> file.n,
     rows |-> file.rows]

\* turtles_data["date_year"].dropna(): the years that are present, in row
\* order.
DropnaYears(df) ==
    LET present == {i \in DOMAIN df.rows : df.rows[i].date_year # NaN}
        order == Ascending(present)
    IN [k \in 1..Len(order) |-> df.rows[order[k]].date_year]

\* fillna(0) in place of fillna("NA"): a missing number becomes 0.
FillNaZero(v) == IF v = NaN THEN 0 ELSE v

\* fillna("NA") on a numeric cell and on a text cell.
FillNa(v) == IF v = NaN THEN NA ELSE v
FillNaStr(v) == IF v = NaNStr THEN NAStr ELSE v

FillRow(r) ==
    [date_year |-> FillNa(r.date_year),
     decimalLatitude |-> FillNa(r.decimalLatitude),
     decimalLongitude |-> FillNa(r.decimalLongitude),
     sst |-> FillNa(r.sst), sss |-> FillNa(r.sss),
     waterBody |-> FillNaStr(r.waterBody), country |-> FillNaStr(r.country)]

\* load_data: .loc[...] is handed a Series of years, not a boolean mask, so
\* it selects by index label: the k-th row of the result is the row whose
\* label is the k-th present year, and a year that is no label of the frame
\* raises KeyError.  fillna("NA") then replaces every missing cell.
load_data(file) ==
    LET df == ReadCsv(file)
        labels == DropnaYears(df)
        picked == [k \in 1..Len(labels) |-> CsvRow(df, labels[k])]
        filled == [k \in 1..Len(picked) |-> FillRow(picked[k])]
    IN IF \E k \in 1..Len(labels) : labels[k] \notin 0..(df.n - 1)
       THEN [err |-> "KeyError", frame |-> [dtype |-> "none", rows |-> <<>>]]
       ELSE [err |-> "none",
             frame |-> [dtype |-> IF \E k \in 1..Len(filled) : filled[k].date_year = NA
                                  THEN "object" ELSE df.dtype,
                        rows |-> filled]]

(* ------------------------------ the slider range ---------------------- *)

\* Series.astype(int) on date_year: int("NA") raises ValueError.
AstypeIntFails(rows) == \E i \in 1..Len(rows) : rows[i].date_year = NA

\* Lines 284-286: the first and the last year >= 1992 (NaN when there is
\* none: min() and max() of an empty Series).
slider_range(df) ==
    LET ys == {df.rows[i].date_year : i \in 1..Len(df.rows)}
        late == {y \in ys : y >= MinSliderYear}
    IN IF AstypeIntFails(df.rows)
       THEN [err |-> "ValueError", first_date |-> NaN, last_date |-> NaN]
       ELSE [err |-> "none",
             first_date |-> IF late = {} THEN NaN ELSE Min(late),
             last_date |-> IF late = {} THEN NaN ELSE Max(late)]

(* ------------------------------ turtle_population_plot ---------------- *)

\* The yearly counts without sort_values("date_year"): the years in the
\* order in which the records bring them.
YearValueCountsUnsorted(rows) ==
    LET ys == Unique(Column(rows, "date_year"))
    IN [k \in 1..Len(ys) |->
          [date_year |-> ys[k], count |-> Count(rows, "date_year", ys[k])]]

\* df.value_counts(["date_year"]).reset_index().sort_values("date_year"):
\* one (date_year, count) row per distinct year, ascending by year.
YearValueCounts(rows) ==
    LET ys == Ascending({rows[i].date_year : i \in 1..Len(rows)})
    IN [k \in 1..Len(ys) |->
          [date_year |-> ys[k], count |-> Count(rows, "date_year", ys[k])]]

\* query("count >= 1 and date_year >= 1990"): keeps the years seen once.
YearlyQueryKeepsSingles(e) == e.count >= 1 /\ e.date_year >= MinYearlyYear

\* query("count > 1 and date_year >= 1990")
YearlyQuery(e) == e.count > 1 /\ e.date_year >= MinYearlyYear

\* The y of the second annotation: df_yearly.query("date_year == 2019")
\* ["count"].values[0], an IndexError when no row of df_yearly is for 2019.
AnnotationFails(yearly) ==
    ~ \E k \in 1..Len(yearly) : yearly[k].date_year = AnnotationYear

\* sort_values and the query compare date_year values: a column that holds
\* the string "NA" beside numbers raises TypeError.
turtle_population_plot(df) ==
    IF \E i \in 1..Len(df.rows) : df.rows[i].date_year = NA
    THEN [err |-> "TypeError", computed |-> FALSE, df_yearly |-> <<>>]
    ELSE LET yearly == SelectSeq(YearValueCounts(df.rows), YearlyQuery)
         IN [err |-> IF AnnotationFails(yearly) THEN "IndexError" ELSE "none",
             computed |-> TRUE,
             df_yearly |-> yearly]

(* ------------------------------ scatter_plot -------------------------- *)

\* The mean of a group's values as the fraction num/den.
Mean(vals) == [num |-> Sum(vals), den |-> Len(vals)]

\* A mean that takes the marker of a missing cell for a number.
MeanNeverFails(rows) == FALSE

\* groupby("date_year")[["sst", "sss"]].mean() adds up the cells of each
\* column: a column in which fillna wrote the string "NA" cannot be
\* averaged, and the call (or the lookup of the dropped column at line 128)
\* raises.
MeanFails(rows) ==
    \E i \in 1..Len(rows) : rows[i].sst = NA \/ rows[i].sss = NA

GroupMeans(rows) ==
    LET ys == Ascending({rows[i].date_year : i \in 1..Len(rows)})
        Of(y) == SelectSeq(rows, LAMBDA r : r.date_year = y)
    IN [k \in 1..Len(ys) |->
          [date_year |-> ys[k],
           sst |-> Mean(Column(Of(ys[k]), "sst")),
           sss |-> Mean(Column(Of(ys[k]), "sss"))]]

scatter_plot(df) ==
    IF MeanFails(df.rows)
    THEN [err |-> "TypeError", computed |-> FALSE, df_yearly |-> <<>>]
    ELSE [err |-> "none", computed |-> TRUE, df_yearly |-> GroupMeans(df.rows)]

(* ------------------------------ pie_plot ------------------------------ *)

\* query("date_year > 2000"): leaves out the records of 2000.
PieQueryAfter(r) == r.date_year > MinPieYear

\* query("date_year >= 2000")
PieQuery(r) == r.date_year >= MinPieYear

\* query("count > 1")
CountQuery(e) == e.count > 1

\* value_counts(sort=False): any order of the distinct values.
CountsUnordered(counts) == TRUE

\* Whether an order of the distinct values is one Series.value_counts()
\* may return: descending by count.  The sort behind it is not a stable
\* one, so the order of values of equal count is left open.
CountsOrdered(counts) ==
    \A i, j \in 1..Len(counts) : i < j => counts[i].count >= counts[j].count

\* Series.value_counts(): the results it may return for a column.
ValueCounts(col) ==
    LET keys == Unique(col)
        n == Len(keys)
        perms == {p \in [1..n -> 1..n] : \A i, j \in 1..n : p[i] = p[j] => i = j}
        Counted(p) == [k \in 1..n |->
                         [value |-> keys[p[k]],
                          count |-> Cardinality({i \in 1..Len(col) : col[i] = keys[p[k]]})]]
    IN {c \in {Counted(p) : p \in perms} : CountsOrdered(c)}

\* The field_counts pie_plot may plot for a field.
pie_plot(df, field) ==
    LET filtered_data == SelectSeq(df.rows, PieQuery)
    IN {SelectSeq(c, CountQuery) : c \in ValueCounts(Column(filtered_data, field))}

(* ------------------------------ filter_turtle_data -------------------- *)

Project(r) ==
    [date_year |-> r.date_year, decimalLatitude |-> r.decimalLatitude,
     decimalLongitude |-> r.decimalLongitude]

\* turtles_data[turtles_data["date_year"] <= year]: the comparison turned.
YearFilterUpTo(rows, year) == SelectSeq(rows, LAMBDA r : r.date_year <= year)

\* turtles_data[turtles_data["date_year"] >= year]
YearFilter(rows, year) == SelectSeq(rows, LAMBDA r : r.date_year >= year)

\* A filter_turtle_data that converts the years of the frame it is handed
\* (turtles_data["date_year"] = turtles_data["date_year"].astype(int)).
filter_turtle_data_in_place(df, year) ==
    LET filtered_data == SelectSeq(df.rows, LAMBDA r : r.date_year >= year)
    IN [result |-> [dtype |-> "int64",
                    rows |-> [k \in 1..Len(filtered_data) |->
                                [date_year |-> filtered_data[k].date_year,
                                 decimalLatitude |-> filtered_data[k].decimalLatitude,
                                 decimalLongitude |-> filtered_data[k].decimalLongitude]]],
        source |-> [dtype |-> "int64", rows |-> df.rows]]

\* filter_turtle_data: indexing with a boolean mask builds a new frame, so
\* the astype(int) written into filtered_data at line 278 changes the
\* result and leaves the frame passed in as it was.  The operator returns
\* both: the projected result and the caller's frame after the call.
filter_turtle_data(df, year) ==
    LET filtered_data == YearFilter(df.rows, year)
    IN [result |-> [dtype |-> "int64",
                    rows |-> [k \in 1..Len(filtered_data) |-> Project(filtered_data[k])]],
        source |-> df]

(* ------------------------------ map_heatmap --------------------------- *)

\* [["decimalLatitude", "decimalLongitude"]].dropna(): drops the rows with
\* a missing (NaN) coordinate; the string "NA" is not missing.
DropnaCoords(rows) ==
    SelectSeq(rows, LAMBDA r : r.decimalLatitude # NaN /\ r.decimalLongitude # NaN)

\* map_heatmap: the heat data, and TypeError when mean() meets the string
\* "NA" in a coordinate column (ValueError from folium for the NaN centre of
\* an empty frame).
map_heatmap(fd) ==
    LET kept == DropnaCoords(fd.rows)
    IN [heat_data |-> [k \in 1..Len(kept) |->
                         <<kept[k].decimalLatitude, kept[k].decimalLongitude>>],
        err |-> IF \E i \in 1..Len(fd.rows) :
                     fd.rows[i].decimalLatitude = NA \/ fd.rows[i].decimalLongitude = NA
                THEN "TypeError"
                ELSE IF fd.rows = <<>> THEN "ValueError" ELSE "none"]

(* ------------------------------ the script ---------------------------- *)

VARIABLES
    csv,            \* Resources/seaturtles.csv
    pc,             \* the statement the script is at
    err,            \* the exception that ended this execution, or "none"
    at,             \* the statement that raised it, or "none"
    turtles_data,   \* the frame load_data returned
    first_date,     \* line 285
    last_date,      \* line 286
    df_yearly,      \* turtle_population_plot's df_yearly
    df_means,       \* scatter_plot's df_yearly
    field_counts,   \* pie_plot's field_counts, per field
    selected_date,  \* the year passed to filter_turtle_data
    filtered_data,  \* what filter_turtle_data returned
    heat_data,      \* map_heatmap's heat_data
    slider,         \* the slider's value once the user has moved it, else NaN
    shown,          \* the year and the row count of the map shown before this one
    computed,       \* the statements that have produced their view
    reruns          \* how often the slider has been moved

vars == <<csv, pc, err, at, turtles_data, first_date, last_date, df_yearly,
          df_means, field_counts, selected_date, filtered_data, heat_data,
          slider, shown, computed, reruns>>

NoFrame == [dtype |-> "none", rows |-> <<>>]

Init ==
    /\ csv \in CsvFiles
    /\ pc = "load"
    /\ err = "none"
    /\ at = "none"
    /\ turtles_data = NoFrame
    /\ first_date = NaN
    /\ last_date = NaN
    /\ df_yearly = <<>>
    /\ df_means = <<>>
    /\ field_counts = [f \in {"waterBody", "country"} |-> <<>>]
    /\ selected_date = NaN
    /\ filtered_data = NoFrame
    /\ heat_data = <<>>
    /\ slider = NaN
    /\ shown = [year |-> NaN, n |-> 0]
    /\ computed = {}
    /\ reruns = 0

\* The statement `here` ends: with exception e the execution stops, else
\* the script goes on at `next`.
Goes(here, e, next) ==
    /\ err' = e
    /\ at' = IF e = "none" THEN "none" ELSE here
    /\ pc' = IF e = "none" THEN next ELSE "halt"

\* Line 282: turtles_data = load_data("Resources/seaturtles.csv")
Load ==
    /\ pc = "load"
    /\ LET r == load_data(csv)
       IN /\ turtles_data' = IF r.err = "none" THEN r.frame ELSE turtles_data
          /\ Goes("load", r.err, "dates")
    /\ UNCHANGED <<csv, first_date, last_date, df_yearly, df_means, field_counts,
                   selected_date, filtered_data, heat_data, slider, shown, computed, reruns>>

\* Lines 284-286
Dates ==
    /\ pc = "dates"
    /\ LET r == slider_range(turtles_data)
       IN /\ first_date' = r.first_date
          /\ last_date' = r.last_date
          /\ Goes("dates", r.err, "tab1")
    /\ UNCHANGED <<csv, turtles_data, df_yearly, df_means, field_counts,
                   selected_date, filtered_data, heat_data, slider, shown, computed, reruns>>

\* Lines 306-307
Tab1 ==
    /\ pc = "tab1"
    /\ LET r == turtle_population_plot(turtles_data)
       IN /\ df_yearly' = IF r.computed THEN r.df_yearly ELSE df_yearly
          /\ computed' = IF r.computed THEN computed \cup {"tab1"} ELSE computed
          /\ Goes("tab1", r.err, "tab2")
    /\ UNCHANGED <<csv, turtles_data, first_date, last_date, df_means, field_counts,
                   selected_date, filtered_data, heat_data, slider, shown, reruns>>

\* Lines 309-310
Tab2 ==
    /\ pc = "tab2"
    /\ LET r == scatter_plot(turtles_data)
       IN /\ df_means' = IF r.computed THEN r.df_yearly ELSE df_means
          /\ computed' = IF r.computed THEN computed \cup {"tab2"} ELSE computed
          /\ Goes("tab2", r.err, "tab3")
    /\ UNCHANGED <<csv, turtles_data, first_date, last_date, df_yearly, field_counts,
                   selected_date, filtered_data, heat_data, slider, shown, reruns>>

\* The sort behind value_counts is a function of its input: a call on the
\* column an earlier call has counted returns what that call returned.
Again(field, counts) ==
    ("tab3" \in computed /\ field_counts[field] \in pie_plot(turtles_data, field))
        => counts = field_counts[field]

\* Lines 312-319
Tab3 ==
    /\ pc = "tab3"
    /\ \E w \in pie_plot(turtles_data, "waterBody") :
       \E c \in pie_plot(turtles_data, "country") :
          /\ Again("waterBody", w)
          /\ Again("country", c)
          /\ field_counts' = [waterBody |-> w, country |-> c]
    /\ computed' = computed \cup {"tab3"}
    /\ Goes("tab3", "none", "tab4")
    /\ UNCHANGED <<csv, turtles_data, first_date, last_date, df_yearly, df_means,
                   selected_date, filtered_data, heat_data, slider, shown, reruns>>

\* Lines 320-331: the slider shows first_date until the user has moved it.
Tab4 ==
    /\ pc = "tab4"
    /\ LET year == IF slider = NaN THEN first_date ELSE slider
           f == filter_turtle_data(turtles_data, year)
           m == map_heatmap(f.result)
       IN /\ selected_date' = year
          /\ filtered_data' = f.result
          /\ turtles_data' = f.source
          /\ heat_data' = m.heat_data
          /\ Goes("tab4", m.err, "done")
    /\ shown' = IF "tab4" \in computed
                THEN [year |-> selected_date, n |-> Len(filtered_data.rows)]
                ELSE shown
    /\ computed' = computed \cup {"tab4"}
    /\ UNCHANGED <<csv, first_date, last_date, df_yearly, df_means, field_counts,
                   slider, reruns>>

\* The user moves the slider, which tab 4 has shown, to another year of its
\* range: Streamlit executes the script again from the top.
MoveSlider ==
    /\ pc = "done" \/ (pc = "halt" /\ at = "tab4")
    /\ reruns < MaxReruns
    /\ \E v \in SliderChoices :
          /\ first_date <= v /\ v <= last_date
          /\ v # selected_date
          /\ slider' = v
    /\ reruns' = reruns + 1
    /\ pc' = "load"
    /\ err' = "none"
    /\ at' = "none"
    /\ UNCHANGED <<csv, turtles_data, first_date, last_date, df_yearly, df_means,
                   field_counts, selected_date, filtered_data, heat_data, shown,
                   computed>>

Next == Load \/ Dates \/ Tab1 \/ Tab2 \/ Tab3 \/ Tab4 \/ MoveSlider

Spec == Init /\ [][Next]_vars

(* ------------------------------ properties ---------------------------- *)

\* The years that are present in some record of the file.
FileYears == {csv.rows[p].date_year : p \in DOMAIN csv.rows} \ {NaN}

Rows == turtles_data.rows

\* The records of the loaded dataset with year y.
OfYear(y) == SelectSeq(Rows, LAMBDA r : r.date_year = y)

\* The records of the loaded dataset that count for the pie charts.
PieRows == SelectSeq(Rows, LAMBDA r : r.date_year >= MinPieYear)

\* C1: every derived view is built only from records whose year is
\* present: once a view has been computed, every record of the loaded
\* dataset, every row of df_yearly, of the yearly means and of the filtered
\* data carries a year that is present in the file, and never the marker of
\* a missing year.
C1_ViewsExcludeNullYears ==
    computed # {} =>
        /\ \A i \in 1..Len(Rows) : Rows[i].date_year \in FileYears
        /\ \A k \in 1..Len(df_yearly) :
              /\ df_yearly[k].date_year \in FileYears
              /\ df_yearly[k].count = Len(OfYear(df_yearly[k].date_year))
        /\ \A k \in 1..Len(df_means) : df_means[k].date_year \in FileYears
        /\ \A k \in 1..Len(filtered_data.rows) :
              filtered_data.rows[k].date_year \in FileYears

\* C1 witness: all four tabs have been rendered from a file that holds
\* records without a year.
C1_Witness ==
    /\ pc = "done"
    /\ \E p \in DOMAIN csv.rows : csv.rows[p].date_year = NaN
    /\ df_yearly # <<>> /\ df_means # <<>> /\ filtered_data.rows # <<>>

\* C2 (as claimed): filter_turtle_data returns exactly the records with
\* year >= y and both coordinates present, projected to (year, latitude,
\* longitude).
C2_GeoFilterExact ==
    "tab4" \in computed =>
        filtered_data.rows =
            LET kept == SelectSeq(Rows, LAMBDA r :
                            /\ r.date_year >= selected_date
                            /\ r.decimalLatitude \notin {NaN, NA}
                            /\ r.decimalLongitude \notin {NaN, NA})
            IN [k \in 1..Len(kept) |-> Project(kept[k])]

\* C3 (as claimed): no transform fails because a result is empty: when
\* turtle_population_plot has computed a df_yearly without a row for 2019
\* (an empty one included), the execution does not stop there.
C3_NoFailureOnEmptyResult ==
    ("tab1" \in computed /\ AnnotationFails(df_yearly)
        /\ pc \notin {"load", "dates", "tab1"}) => at # "tab1"

\* C4: df_yearly holds no year < 1990 and no count <= 1, each count is the
\* number of records of the dataset with that year, and every year >= 1990
\* with more than one record has its row.
C4_YearlyCounts ==
    "tab1" \in computed =>
        /\ \A k \in 1..Len(df_yearly) :
              /\ df_yearly[k].date_year >= 1990
              /\ df_yearly[k].count > 1
              /\ df_yearly[k].count = Len(OfYear(df_yearly[k].date_year))
        /\ \A i \in 1..Len(Rows) :
              (Rows[i].date_year >= 1990 /\ Len(OfYear(Rows[i].date_year)) > 1)
                 => \E k \in 1..Len(df_yearly) :
                       df_yearly[k].date_year = Rows[i].date_year

\* C4 witness: a year before 1990 with two records and a year from 1990 on
\* with one record are both left out, and 2019 is counted.
C4_Witness ==
    /\ "tab1" \in computed /\ at = "none" /\ pc = "tab2"
    /\ \E i \in 1..Len(Rows) :
          Rows[i].date_year < 1990 /\ Len(OfYear(Rows[i].date_year)) > 1
    /\ \E i \in 1..Len(Rows) :
          Rows[i].date_year >= 1990 /\ Len(OfYear(Rows[i].date_year)) = 1
    /\ df_yearly = <<[date_year |-> 2019, count |-> 2]>>

\* C5: the counts of a pie chart count only records with year >= 2000, and
\* no category with count <= 1 is in the result: every row's count is the
\* number of records with year >= 2000 of that category and exceeds 1, no
\* category has two rows, and every category with more than one such record
\* has its row.
C5_CategoryCounts ==
    "tab3" \in computed =>
        \A f \in {"waterBody", "country"} :
            LET fc == field_counts[f]
                N(v) == Cardinality({i \in 1..Len(Rows) :
                            Rows[i].date_year >= 2000 /\ Rows[i][f] = v})
            IN /\ \A k \in 1..Len(fc) : fc[k].count = N(fc[k].value) /\ fc[k].count > 1
               /\ \A j, k \in 1..Len(fc) : fc[j].value = fc[k].value => j = k
               /\ \A i \in 1..Len(Rows) :
                     N(Rows[i][f]) > 1 => \E k \in 1..Len(fc) : fc[k].value = Rows[i][f]

\* C5 witness: two records of one country from 2000 on are counted, a
\* country with one such record is dropped, and a record of the counted
\* country from before 2000 is not counted.
C5_Witness ==
    /\ "tab3" \in computed /\ pc = "tab4"
    /\ Len(field_counts["country"]) = 1
    /\ field_counts["country"][1].count = 2
    /\ \E i \in 1..Len(Rows) :
          /\ Rows[i].date_year < 2000
          /\ Rows[i].country = field_counts["country"][1].value
    /\ \E i \in 1..Len(Rows) :
          /\ Rows[i].date_year >= 2000
          /\ Rows[i].country # field_counts["country"][1].value

\* C6: no transform changes the dataset: it stays what load_data returned
\* for the file, and every view that has been computed is what a further
\* call with the same arguments returns.
C6_DatasetUnchanged ==
    /\ turtles_data # NoFrame => turtles_data = load_data(csv).frame
    /\ "tab1" \in computed => df_yearly = turtle_population_plot(turtles_data).df_yearly
    /\ "tab2" \in computed => df_means = scatter_plot(turtles_data).df_yearly
    /\ "tab3" \in computed =>
          \A f \in {"waterBody", "country"} : field_counts[f] \in pie_plot(turtles_data, f)
    /\ "tab4" \in computed =>
          filtered_data = filter_turtle_data(turtles_data, selected_date).result

\* C6 witness: the script has run twice; filter_turtle_data has turned the
\* years of its rows into integers while the dataset's years are floats.
C6_Witness ==
    /\ pc = "done" /\ reruns >= 1
    /\ turtles_data.dtype = "float64"
    /\ filtered_data.dtype = "int64" /\ filtered_data.rows # <<>>

\* The cells of column c are all missing in the records of year y.
AllMissing(y, c) == \A i \in 1..Len(Rows) : Rows[i].date_year = y => Rows[i][c] = NA

C8_YearlyAscending ==
    "tab1" \in computed =>
        \A j, k \in 1..Len(df_yearly) :
            j < k => df_yearly[j].date_year < df_yearly[k].date_year

\* C8 witness: df_yearly has two rows although the dataset's first record of
\* the later year comes before its first record of the earlier year.
C8_Witness ==
    /\ "tab1" \in computed /\ Len(df_yearly) = 2
    /\ Rows[1].date_year = df_yearly[2].date_year

\* The first record of the pie rows with value v in field f.
FirstSeen(f, v) == Min({i \in 1..Len(PieRows) : PieRows[i][f] = v})

\* C9 (as claimed): the rows of a pie chart's counts are in descending
\* order of count, and two categories of equal count are in the order in
\* which they are first met in the records from 2000 on.
C9_TiesFirstEncountered ==
    "tab3" \in computed =>
        \A f \in {"waterBody", "country"} :
            \A j, k \in 1..Len(field_counts[f]) :
                j < k =>
                    \/ field_counts[f][j].count > field_counts[f][k].count
                    \/ /\ field_counts[f][j].count = field_counts[f][k].count
                       /\ FirstSeen(f, field_counts[f][j].value)
                            < FirstSeen(f, field_counts[f][k].value)

\* C9 (amended): the rows of a pie chart's counts are in descending order
\* of count, in an order that is the same on every call; the order of two
\* categories of equal count need not be the order of first encounter.
C9_DescendingCount ==
    /\ [](("tab3" \in computed) =>
            \A f \in {"waterBody", "country"} :
                \A j, k \in 1..Len(field_counts[f]) :
                    j < k => field_counts[f][j].count >= field_counts[f][k].count)
    /\ [][(pc = "tab3" /\ "tab3" \in computed) => field_counts' = field_counts]_vars

\* C9 witness: the category met first has fewer records than the one met
\* later, and comes second.
C9_Witness ==
    /\ "tab3" \in computed /\ Len(field_counts["waterBody"]) = 2
    /\ field_counts["waterBody"][1].count > field_counts["waterBody"][2].count
    /\ FirstSeen("waterBody", field_counts["waterBody"][2].value) = 1

\* C10: when the slider is moved to a later year, the filtered data have at
\* most as many rows as the filtered data shown before.
C10_RowCountMonotone ==
    ("tab4" \in computed /\ shown.year # NaN /\ shown.year <= selected_date)
        => Len(filtered_data.rows) <= shown.n

\* C10 witness: the slider has been moved to a later year and the filtered
\* data have lost rows.
C10_Witness ==
    /\ pc = "done" /\ shown.year # NaN /\ shown.year < selected_date
    /\ Len(filtered_data.rows) < shown.n
    /\ filtered_data.rows # <<>>

====
